---- MODULE Spec2Model ----
(***************************************************************************)
(* Model of the default seccomp profile builder of containerd              *)
(* (contrib/seccomp/seccomp_default.go).  DefaultProfile is a one-shot     *)
(* pipeline that appends rules to one policy value `s`; the model follows  *)
(* its statements in source order, one stage per action.                   *)
(*                                                                         *)
(* A uint64 is modelled as the set of its set bit positions (0..63), so    *)
(* that 0xffffffff and the masked comparison keep their full width:        *)
(* a & b is the intersection, a | b the union, equality is set equality.   *)
(***************************************************************************)
EXTENDS Integers, Sequences, FiniteSets, Bags, TLC

\* DefaultProfile (contrib/seccomp)
VARIABLES goarch, oracle, sp, s, admin, idx, pc, prev

\* SkipNonDistributableBlobs (remotes): the descriptor handled, what the
\* wrapped handler returns, and what the returned handler returns
VARIABLES desc, children, ferr, out, outErr, hpc

\* CreateDiff (rootfs): its arguments and the snapshot they name, its
\* position, the calls made so far, the deferred removals, the views the
\* snapshotter holds, the uniquePart counter and the returned error
VARIABLES snapshotID, info, dpc, calls, deferred, views, uniq, ret

seccompVars == <<goarch, oracle, sp, s, admin, idx, pc, prev>>

handlerVars == <<desc, children, ferr, out, outErr, hpc>>

diffVars == <<snapshotID, info, dpc, calls, deferred, views, uniq, ret>>

vars == <<seccompVars, handlerVars, diffVars>>

(* ---------------------------- bounds ---------------------------------- *)

\* longest capability bounding list drawn as an input
MaxLen == 2

(* ------------------------- uint64 as bit sets -------------------------- *)

\* the bit set of a number below 2^31
Bits(n) == {b \in 0..30 : (n \div (2 ^ b)) % 2 = 1}

BitAnd(a, b) == a \cap b

BitOr(a, b) == a \cup b

(* ------------------- constants of golang.org/x/sys/unix ---------------- *)

ENOSYS == 38

AF_VSOCK == 40

CLONE_NEWNS == Bits(131072)         \* 0x00020000

CLONE_NEWCGROUP == Bits(33554432)   \* 0x02000000

CLONE_NEWUTS == Bits(67108864)      \* 0x04000000

CLONE_NEWIPC == Bits(134217728)     \* 0x08000000

CLONE_NEWUSER == Bits(268435456)    \* 0x10000000

CLONE_NEWPID == Bits(536870912)     \* 0x20000000

CLONE_NEWNET == Bits(1073741824)    \* 0x40000000

\* the Value of the clone rule's condition
CloneNamespaceMask ==
    BitOr(CLONE_NEWNS, BitOr(CLONE_NEWUTS, BitOr(CLONE_NEWIPC,
    BitOr(CLONE_NEWUSER, BitOr(CLONE_NEWPID,
    BitOr(CLONE_NEWNET, CLONE_NEWCGROUP))))))

(* --------------------- runtimespec value shapes ------------------------ *)

ActAllow == "SCMP_ACT_ALLOW"

ActErrno == "SCMP_ACT_ERRNO"

OpNotEqual == "SCMP_CMP_NE"

OpEqualTo == "SCMP_CMP_EQ"

OpMaskedEqual == "SCMP_CMP_MASKED_EQ"

\* a nil *uint
NilErrno == <<>>

\* runtimespec.LinuxSeccompArg
LinuxSeccompArg(index, value, valueTwo, op) ==
    [Index |-> index, Value |-> value, ValueTwo |-> valueTwo, Op |-> op]

\* runtimespec.LinuxSyscall; Names is kept as the set of the listed names
\* (no list of the source repeats a name, and no reader depends on the order)
LinuxSyscall(names, action, args, errnoRet) ==
    [Names |-> names, Action |-> action, Args |-> args, ErrnoRet |-> errnoRet]

\* an Allow rule without argument conditions
AllowRule(names) == LinuxSyscall(names, ActAllow, <<>>, NilErrno)

\* the policy value before DefaultProfile has built it
NoPolicy == [DefaultAction |-> "", Architectures |-> <<>>, Syscalls |-> <<>>]

Range(q) == {q[k] : k \in 1..Len(q)}

(* --------------------------- arches() ---------------------------------- *)

\* arches without the compatibility ABIs of arm64
arches_NoCompat(arch) ==
    CASE arch = "amd64" -> <<"SCMP_ARCH_X86_64", "SCMP_ARCH_X86", "SCMP_ARCH_X32">>
      [] arch = "arm64" -> <<"SCMP_ARCH_AARCH64">>
      [] arch = "mips64" -> <<"SCMP_ARCH_MIPS", "SCMP_ARCH_MIPS64", "SCMP_ARCH_MIPS64N32">>
      [] arch = "mips64n32" -> <<"SCMP_ARCH_MIPS", "SCMP_ARCH_MIPS64", "SCMP_ARCH_MIPS64N32">>
      [] arch = "mipsel64" -> <<"SCMP_ARCH_MIPSEL", "SCMP_ARCH_MIPSEL64", "SCMP_ARCH_MIPSEL64N32">>
      [] arch = "mipsel64n32" -> <<"SCMP_ARCH_MIPSEL", "SCMP_ARCH_MIPSEL64", "SCMP_ARCH_MIPSEL64N32">>
      [] arch = "s390x" -> <<"SCMP_ARCH_S390", "SCMP_ARCH_S390X">>
      [] arch = "riscv64" -> <<"SCMP_ARCH_RISCV64">>
      [] OTHER -> <<>>

arches(arch) ==
    CASE arch = "amd64" -> <<"SCMP_ARCH_X86_64", "SCMP_ARCH_X86", "SCMP_ARCH_X32">>
      [] arch = "arm64" -> <<"SCMP_ARCH_ARM", "SCMP_ARCH_AARCH64">>
      [] arch = "mips64" -> <<"SCMP_ARCH_MIPS", "SCMP_ARCH_MIPS64", "SCMP_ARCH_MIPS64N32">>
      [] arch = "mips64n32" -> <<"SCMP_ARCH_MIPS", "SCMP_ARCH_MIPS64", "SCMP_ARCH_MIPS64N32">>
      [] arch = "mipsel64" -> <<"SCMP_ARCH_MIPSEL", "SCMP_ARCH_MIPSEL64", "SCMP_ARCH_MIPSEL64N32">>
      [] arch = "mipsel64n32" -> <<"SCMP_ARCH_MIPSEL", "SCMP_ARCH_MIPSEL64", "SCMP_ARCH_MIPSEL64N32">>
      [] arch = "s390x" -> <<"SCMP_ARCH_S390", "SCMP_ARCH_S390X">>
      [] arch = "riscv64" -> <<"SCMP_ARCH_RISCV64">>
      [] OTHER -> <<>>

(* ------------------------ baseline rules ------------------------------- *)

\* the names of the first rule of `syscalls`
BaselineNames == {
    "accept", "accept4", "access", "adjtimex", "alarm", "bind", "brk", 
    "capget", "capset", "chdir", "chmod", "chown", "chown32", "clock_adjtime", 
    "clock_adjtime64", "clock_getres", "clock_getres_time64", "clock_gettime", 
    "clock_gettime64", "clock_nanosleep", "clock_nanosleep_time64", "close", 
    "close_range", "connect", "copy_file_range", "creat", "dup", "dup2", 
    "dup3", "epoll_create", "epoll_create1", "epoll_ctl", "epoll_ctl_old", 
    "epoll_pwait", "epoll_pwait2", "epoll_wait", "epoll_wait_old", "eventfd", 
    "eventfd2", "execve", "execveat", "exit", "exit_group", "faccessat", 
    "faccessat2", "fadvise64", "fadvise64_64", "fallocate", "fanotify_mark", 
    "fchdir", "fchmod", "fchmodat", "fchown", "fchown32", "fchownat", "fcntl", 
    "fcntl64", "fdatasync", "fgetxattr", "flistxattr", "flock", "fork", 
    "fremovexattr", "fsetxattr", "fstat", "fstat64", "fstatat64", "fstatfs", 
    "fstatfs64", "fsync", "ftruncate", "ftruncate64", "futex", "futex_time64", 
    "futex_waitv", "futimesat", "getcpu", "getcwd", "getdents", "getdents64", 
    "getegid", "getegid32", "geteuid", "geteuid32", "getgid", "getgid32", 
    "getgroups", "getgroups32", "getitimer", "getpeername", "getpgid", 
    "getpgrp", "getpid", "getppid", "getpriority", "getrandom", "getresgid", 
    "getresgid32", "getresuid", "getresuid32", "getrlimit", "get_robust_list", 
    "getrusage", "getsid", "getsockname", "getsockopt", "get_thread_area", 
    "gettid", "gettimeofday", "getuid", "getuid32", "getxattr", 
    "inotify_add_watch", "inotify_init", "inotify_init1", "inotify_rm_watch", 
    "io_cancel", "ioctl", "io_destroy", "io_getevents", "io_pgetevents", 
    "io_pgetevents_time64", "ioprio_get", "ioprio_set", "io_setup", 
    "io_submit", "io_uring_enter", "io_uring_register", "io_uring_setup", 
    "ipc", "kill", "landlock_add_rule", "landlock_create_ruleset", 
    "landlock_restrict_self", "lchown", "lchown32", "lgetxattr", "link", 
    "linkat", "listen", "listxattr", "llistxattr", "_llseek", "lremovexattr", 
    "lseek", "lsetxattr", "lstat", "lstat64", "madvise", "membarrier", 
    "memfd_create", "memfd_secret", "mincore", "mkdir", "mkdirat", "mknod", 
    "mknodat", "mlock", "mlock2", "mlockall", "mmap", "mmap2", "mprotect", 
    "mq_getsetattr", "mq_notify", "mq_open", "mq_timedreceive", 
    "mq_timedreceive_time64", "mq_timedsend", "mq_timedsend_time64", 
    "mq_unlink", "mremap", "msgctl", "msgget", "msgrcv", "msgsnd", "msync", 
    "munlock", "munlockall", "munmap", "name_to_handle_at", "nanosleep", 
    "newfstatat", "_newselect", "open", "openat", "openat2", "pause", 
    "pidfd_open", "pidfd_send_signal", "pipe", "pipe2", "pkey_alloc", 
    "pkey_free", "pkey_mprotect", "poll", "ppoll", "ppoll_time64", "prctl", 
    "pread64", "preadv", "preadv2", "prlimit64", "process_mrelease", 
    "pselect6", "pselect6_time64", "pwrite64", "pwritev", "pwritev2", "read", 
    "readahead", "readlink", "readlinkat", "readv", "recv", "recvfrom", 
    "recvmmsg", "recvmmsg_time64", "recvmsg", "remap_file_pages", 
    "removexattr", "rename", "renameat", "renameat2", "restart_syscall", 
    "rmdir", "rseq", "rt_sigaction", "rt_sigpending", "rt_sigprocmask", 
    "rt_sigqueueinfo", "rt_sigreturn", "rt_sigsuspend", "rt_sigtimedwait", 
    "rt_sigtimedwait_time64", "rt_tgsigqueueinfo", "sched_getaffinity", 
    "sched_getattr", "sched_getparam", "sched_get_priority_max", 
    "sched_get_priority_min", "sched_getscheduler", "sched_rr_get_interval", 
    "sched_rr_get_interval_time64", "sched_setaffinity", "sched_setattr", 
    "sched_setparam", "sched_setscheduler", "sched_yield", "seccomp", "select", 
    "semctl", "semget", "semop", "semtimedop", "semtimedop_time64", "send", 
    "sendfile", "sendfile64", "sendmmsg", "sendmsg", "sendto", "setfsgid", 
    "setfsgid32", "setfsuid", "setfsuid32", "setgid", "setgid32", "setgroups", 
    "setgroups32", "setitimer", "setpgid", "setpriority", "setregid", 
    "setregid32", "setresgid", "setresgid32", "setresuid", "setresuid32", 
    "setreuid", "setreuid32", "setrlimit", "set_robust_list", "setsid", 
    "setsockopt", "set_thread_area", "set_tid_address", "setuid", "setuid32", 
    "setxattr", "shmat", "shmctl", "shmdt", "shmget", "shutdown", 
    "sigaltstack", "signalfd", "signalfd4", "sigprocmask", "sigreturn", 
    "socketcall", "socketpair", "splice", "stat", "stat64", "statfs", 
    "statfs64", "statx", "symlink", "symlinkat", "sync", "sync_file_range", 
    "syncfs", "sysinfo", "tee", "tgkill", "time", "timer_create", 
    "timer_delete", "timer_getoverrun", "timer_gettime", "timer_gettime64", 
    "timer_settime", "timer_settime64", "timerfd_create", "timerfd_gettime", 
    "timerfd_gettime64", "timerfd_settime", "timerfd_settime64", "times", 
    "tkill", "truncate", "truncate64", "ugetrlimit", "umask", "uname", 
    "unlink", "unlinkat", "utime", "utimensat", "utimensat_time64", "utimes", 
    "vfork", "vmsplice", "wait4", "waitid", "waitpid", "write", "writev"
    }

\* PersonalityValues with the last literal cut to 31 bits (0x7fffffff)
PersonalityValues_Signed ==
    <<Bits(0), Bits(8), Bits(131072), Bits(131080), 0..30>>

\* the five personality values, in source order
\* 0x0, 0x0008, 0x20000, 0x20008, 0xffffffff
PersonalityValues ==
    <<Bits(0), Bits(8), Bits(131072), Bits(131080), 0..31>>

PersonalityRule(v) ==
    LinuxSyscall({"personality"}, ActAllow,
                 <<LinuxSeccompArg(0, v, {}, OpEqualTo)>>, NilErrno)

\* SocketRule with the comparison inverted
SocketRule_Equal ==
    LinuxSyscall({"socket"}, ActAllow,
                 <<LinuxSeccompArg(0, Bits(AF_VSOCK), {}, OpEqualTo)>>, NilErrno)

SocketRule ==
    LinuxSyscall({"socket"}, ActAllow,
                 <<LinuxSeccompArg(0, Bits(AF_VSOCK), {}, OpNotEqual)>>, NilErrno)

\* the literal `syscalls` slice
syscalls ==
    <<AllowRule(BaselineNames), SocketRule>>
    \o [k \in 1..Len(PersonalityValues) |-> PersonalityRule(PersonalityValues[k])]

\* s := &runtimespec.LinuxSeccomp{...}
NewPolicy(arch) ==
    [DefaultAction |-> ActErrno, Architectures |-> arches(arch), Syscalls |-> syscalls]

\* append that puts the new rule in front
AppendRule_Prepend(p, r) == [p EXCEPT !.Syscalls = <<r>> \o @]

\* s.Syscalls = append(s.Syscalls, r)
AppendRule(p, r) == [p EXCEPT !.Syscalls = Append(@, r)]

(* ----------------------- kernel-version gate --------------------------- *)

KernelGateRule == AllowRule({"process_vm_readv", "process_vm_writev", "ptrace"})

\* KernelGate that looks at ok without looking at err
KernelGate_IgnoreErr(p, o) ==
    IF o.ok THEN AppendRule(p, KernelGateRule) ELSE p

\* if ok, err := kernelversion.GreaterEqualThan(4.8); err == nil { if ok {...} }
KernelGate(p, o) ==
    IF o.err = FALSE
    THEN IF o.ok THEN AppendRule(p, KernelGateRule) ELSE p
    ELSE p

(* ---------------------- include by arch -------------------------------- *)

ArchGroup(p, arch) ==
    CASE arch = "ppc64le" ->
           AppendRule(p, AllowRule({"sync_file_range2", "swapcontext"}))
      [] arch \in {"arm", "arm64"} ->
           AppendRule(p, AllowRule({"arm_fadvise64_64", "arm_sync_file_range",
                                     "sync_file_range2", "breakpoint",
                                     "cacheflush", "set_tls"}))
      [] arch = "amd64" ->
           AppendRule(p, AllowRule({"arch_prctl", "modify_ldt"}))
      [] arch = "386" ->
           AppendRule(p, AllowRule({"modify_ldt"}))
      [] arch \in {"s390", "s390x"} ->
           AppendRule(p, AllowRule({"s390_pci_mmio_read", "s390_pci_mmio_write",
                                     "s390_runtime_instr"}))
      [] arch = "riscv64" ->
           AppendRule(p, AllowRule({"riscv_flush_icache"}))
      [] OTHER -> p

(* ----------------------- capability table ------------------------------ *)

\* the capabilities the switch over the bounding list has a case for
Capabilities ==
    {"CAP_DAC_READ_SEARCH", "CAP_SYS_ADMIN", "CAP_SYS_BOOT", "CAP_SYS_CHROOT",
     "CAP_SYS_MODULE", "CAP_SYS_PACCT", "CAP_SYS_PTRACE", "CAP_SYS_RAWIO",
     "CAP_SYS_TIME", "CAP_SYS_TTY_CONFIG", "CAP_SYS_NICE", "CAP_SYSLOG",
     "CAP_BPF", "CAP_PERFMON"}

\* the Names of the rule the case for capability c appends
CapNames(c) ==
    CASE c = "CAP_DAC_READ_SEARCH" -> {"open_by_handle_at"}
      [] c = "CAP_SYS_ADMIN" ->
           {"bpf", "clone", "clone3", "fanotify_init", "fsconfig", "fsmount",
             "fsopen", "fspick", "lookup_dcookie", "mount", "mount_setattr",
             "move_mount", "open_tree", "perf_event_open", "quotactl",
             "quotactl_fd", "setdomainname", "sethostname", "setns", "syslog",
             "umount", "umount2", "unshare"}
      [] c = "CAP_SYS_BOOT" -> {"reboot"}
      [] c = "CAP_SYS_CHROOT" -> {"chroot"}
      [] c = "CAP_SYS_MODULE" -> {"delete_module", "init_module", "finit_module"}
      [] c = "CAP_SYS_PACCT" -> {"acct"}
      [] c = "CAP_SYS_PTRACE" ->
           {"kcmp", "pidfd_getfd", "process_madvise", "process_vm_readv",
             "process_vm_writev", "ptrace"}
      [] c = "CAP_SYS_RAWIO" -> {"iopl", "ioperm"}
      [] c = "CAP_SYS_TIME" ->
           {"settimeofday", "stime", "clock_settime", "clock_settime64"}
      [] c = "CAP_SYS_TTY_CONFIG" -> {"vhangup"}
      [] c = "CAP_SYS_NICE" -> {"get_mempolicy", "mbind", "set_mempolicy"}
      [] c = "CAP_SYSLOG" -> {"syslog"}
      [] c = "CAP_BPF" -> {"bpf"}
      [] c = "CAP_PERFMON" -> {"perf_event_open"}
      [] OTHER -> {}

\* CapCase with the case for CAP_PERFMON missing
CapCase_NoPerfmon(p, c) ==
    IF c \in Capabilities \ {"CAP_PERFMON"}
    THEN AppendRule(p, AllowRule(CapNames(c)))
    ELSE p

\* one iteration of the loop over the bounding list: the policy after the
\* switch on token c (a token without a case appends nothing)
CapCase(p, c) ==
    IF c \in Capabilities THEN AppendRule(p, AllowRule(CapNames(c))) ELSE p

\* CapAdmin that forgets an earlier CAP_SYS_ADMIN
CapAdmin_LastToken(a, c) == c = "CAP_SYS_ADMIN"

\* the value of `admin` after the switch on token c
CapAdmin(a, c) == IF c = "CAP_SYS_ADMIN" THEN TRUE ELSE a

(* ----------------------- namespace hardening --------------------------- *)

\* CloneArgIndex without the s390 branch
CloneArgIndex_AlwaysFirst(arch) == 0

\* the Index of the clone rule's condition
CloneArgIndex(arch) == IF arch \in {"s390", "s390x"} THEN 1 ELSE 0

CloneRule(arch) ==
    LinuxSyscall({"clone"}, ActAllow,
                 <<LinuxSeccompArg(CloneArgIndex(arch), CloneNamespaceMask, {},
                                   OpMaskedEqual)>>,
                 NilErrno)

\* Clone3Rule without its errno value
Clone3Rule_NoErrnoRet == LinuxSyscall({"clone3"}, ActErrno, <<>>, NilErrno)

Clone3Rule == LinuxSyscall({"clone3"}, ActErrno, <<>>, <<ENOSYS>>)

\* if !admin { ... }
Harden(p, a, arch) ==
    IF a = FALSE
    THEN AppendRule(AppendRule(p, CloneRule(arch)), Clone3Rule)
    ELSE p

(* ------------------ DefaultProfile as one function ---------------------- *)

\* sp.Process.Capabilities.Bounding dereferences two pointers
Dereferenceable(d) == d.Process /\ d.Capabilities

RECURSIVE CapLoop_StopsEarly(_, _, _, _)
\* CapLoop that leaves before the last token
CapLoop_StopsEarly(p, a, list, k) ==
    IF k >= Len(list)
    THEN <<p, a>>
    ELSE CapLoop_StopsEarly(CapCase(p, list[k]), CapAdmin(a, list[k]), list, k + 1)

RECURSIVE CapLoop(_, _, _, _)
\* the loop over list from position k on; yields <<policy, admin>>
CapLoop(p, a, list, k) ==
    IF k > Len(list)
    THEN <<p, a>>
    ELSE CapLoop(CapCase(p, list[k]), CapAdmin(a, list[k]), list, k + 1)

\* the whole body for a process description it can read: the policy
\* returned and the final value of `admin`
Run(arch, o, d) ==
    LET looped == CapLoop(ArchGroup(KernelGate(NewPolicy(arch), o), arch),
                          FALSE, d.Bounding, 1)
    IN  [Policy |-> Harden(looped[1], looped[2], arch), Admin |-> looped[2]]

\* the value DefaultProfile returns
DefaultProfile(arch, o, d) == Run(arch, o, d).Policy

(* ------------------------------ inputs --------------------------------- *)

\* runtime.GOARCH: every value the two switches name, and two they do not
GoArchs ==
    {"amd64", "arm64", "arm", "386", "mips64", "mips64n32", "mipsel64",
     "mipsel64n32", "s390", "s390x", "riscv64", "ppc64le", "mips64le", "loong64"}

\* the (ok, err) pair kernelversion.GreaterEqualThan returns; err is TRUE
\* for a non-nil error
Oracles == [ok : BOOLEAN, err : BOOLEAN]

\* capability tokens: the table's, and two without a case
Tokens == Capabilities \cup {"CAP_NET_ADMIN", "cap_sys_admin"}

ListsOver(toks) == UNION {[1..n -> toks] : n \in 0..MaxLen}

BoundingLists == ListsOver(Tokens)

\* the *runtimespec.Spec argument: Process and Capabilities tell whether the
\* pointers sp.Process and sp.Process.Capabilities are non-nil
ProcessDescriptions ==
    {[Process |-> TRUE, Capabilities |-> TRUE, Bounding |-> l] : l \in BoundingLists}
    \cup {[Process |-> TRUE, Capabilities |-> FALSE, Bounding |-> <<>>],
          [Process |-> FALSE, Capabilities |-> FALSE, Bounding |-> <<>>]}

NoPrev == [Bounding |-> <<>>, Policy |-> NoPolicy]

(* --------------------- DefaultProfile, step by step -------------------- *)

\* no call of SkipNonDistributableBlobs is modelled
HandlerIdle ==
    /\ desc = [MediaType |-> "", Digest |-> 0]
    /\ children = <<>>
    /\ ferr = FALSE
    /\ out = <<>>
    /\ outErr = FALSE
    /\ hpc = "idle"

\* no call of CreateDiff is modelled
DiffIdle ==
    /\ snapshotID = ""
    /\ info = [Kind |-> "", Parent |-> ""]
    /\ dpc = "idle"
    /\ calls = <<>>
    /\ deferred = <<>>
    /\ views = {}
    /\ uniq = 0
    /\ ret = "none"

\* no call of DefaultProfile is modelled
SeccompIdle ==
    /\ goarch = "amd64"
    /\ oracle = [ok |-> FALSE, err |-> FALSE]
    /\ sp = [Process |-> TRUE, Capabilities |-> TRUE, Bounding |-> <<>>]
    /\ s = NoPolicy
    /\ admin = FALSE
    /\ idx = 0
    /\ pc = "idle"
    /\ prev = NoPrev

Init ==
    /\ goarch \in GoArchs
    /\ oracle \in Oracles
    /\ sp \in ProcessDescriptions
    /\ s = NoPolicy
    /\ admin = FALSE
    /\ idx = 0
    /\ pc = "compose"
    /\ prev = NoPrev
    /\ HandlerIdle
    /\ DiffIdle

\* the syscalls literal and s := &runtimespec.LinuxSeccomp{...}
Compose ==
    /\ pc = "compose"
    /\ s' = NewPolicy(goarch)
    /\ pc' = "kernel"
    /\ UNCHANGED <<goarch, oracle, sp, admin, idx, prev>>
    /\ UNCHANGED <<handlerVars, diffVars>>

\* include by kernel version
IncludeByKernel ==
    /\ pc = "kernel"
    /\ s' = KernelGate(s, oracle)
    /\ pc' = "arch"
    /\ UNCHANGED <<goarch, oracle, sp, admin, idx, prev>>
    /\ UNCHANGED <<handlerVars, diffVars>>

\* include by arch
IncludeByArch ==
    /\ pc = "arch"
    /\ s' = ArchGroup(s, goarch)
    /\ pc' = "range"
    /\ UNCHANGED <<goarch, oracle, sp, admin, idx, prev>>
    /\ UNCHANGED <<handlerVars, diffVars>>

\* admin := false; the range expression sp.Process.Capabilities.Bounding is
\* evaluated once, and a nil pointer on the way is a run-time panic
RangeBounding ==
    /\ pc = "range"
    /\ admin' = FALSE
    /\ IF Dereferenceable(sp)
       THEN pc' = "caps" /\ idx' = 1
       ELSE pc' = "panic" /\ idx' = idx
    /\ UNCHANGED <<goarch, oracle, sp, s, prev>>
    /\ UNCHANGED <<handlerVars, diffVars>>

\* one iteration of the loop: the switch on c
CapIteration ==
    /\ pc = "caps"
    /\ idx <= Len(sp.Bounding)
    /\ LET c == sp.Bounding[idx]
       IN  /\ s' = CapCase(s, c)
           /\ admin' = CapAdmin(admin, c)
    /\ idx' = idx + 1
    /\ UNCHANGED <<goarch, oracle, sp, pc, prev>>
    /\ UNCHANGED <<handlerVars, diffVars>>

\* the loop is over: if !admin {...}; return s
HardenAndReturn ==
    /\ pc = "caps"
    /\ idx > Len(sp.Bounding)
    /\ s' = Harden(s, admin, goarch)
    /\ pc' = "done"
    /\ UNCHANGED <<goarch, oracle, sp, admin, idx, prev>>
    /\ UNCHANGED <<handlerVars, diffVars>>

Next ==
    \/ Compose
    \/ IncludeByKernel
    \/ IncludeByArch
    \/ RangeBounding
    \/ CapIteration
    \/ HardenAndReturn

Spec == Init /\ [][Next]_vars

(* ---------------------- evaluating a policy ---------------------------- *)
(* A call is a syscall name with six uint64 arguments.  A rule matches a   *)
(* call that it names and whose arguments satisfy all its conditions; a    *)
(* call no rule matches gets the default action.                           *)

Call(name, a0, a1) == [Name |-> name, Args |-> <<a0, a1, {}, {}, {}, {}>>]

CondHolds(cond, call) ==
    LET arg == call.Args[cond.Index + 1]
    IN  CASE cond.Op = OpEqualTo -> arg = cond.Value
          [] cond.Op = OpNotEqual -> arg # cond.Value
          [] cond.Op = OpMaskedEqual -> BitAnd(arg, cond.Value) = cond.ValueTwo
          [] OTHER -> FALSE

Matches(rule, call) ==
    /\ call.Name \in rule.Names
    /\ \A k \in 1..Len(rule.Args) : CondHolds(rule.Args[k], call)

Verdict(action, errnoRet) == [Action |-> action, ErrnoRet |-> errnoRet]

\* the outcomes the rules of p at the indices in named give to the call,
\* named being the rules that name the call's syscall
VerdictsAmong(p, named, call) ==
    LET hit == {k \in named :
                   \A j \in 1..Len(p.Syscalls[k].Args) :
                       CondHolds(p.Syscalls[k].Args[j], call)}
    IN  IF hit = {}
        THEN {Verdict(p.DefaultAction, NilErrno)}
        ELSE {Verdict(p.Syscalls[k].Action, p.Syscalls[k].ErrnoRet) : k \in hit}

\* the outcomes the rules of policy p give to the call
Verdicts(p, call) ==
    VerdictsAmong(p, {k \in 1..Len(p.Syscalls) : Matches(p.Syscalls[k], call)}, call)

Allowed == {Verdict(ActAllow, NilErrno)}

DefaultDeny == {Verdict(ActErrno, NilErrno)}

Unimplemented == {Verdict(ActErrno, <<ENOSYS>>)}

\* the indices of the rules of p that name the syscall
RulesNaming(p, name) == {k \in 1..Len(p.Syscalls) : name \in p.Syscalls[k].Names}

\* the names some Allow rule without conditions allows
ArgFreeAllowed(p, name) ==
    \E k \in RulesNaming(p, name) :
        p.Syscalls[k].Action = ActAllow /\ Len(p.Syscalls[k].Args) = 0

\* the namespace-creating bits: 0x7E020000
NamespaceBits == {17, 25, 26, 27, 28, 29, 30}

\* argument values tried on clone and clone3: no flag, SIGCHLD, the flags
\* of a thread, each namespace flag, several, all, and bits above 2^31
SampleFlags ==
    {{}, Bits(17), Bits(4001536)}
    \cup {{b} : b \in NamespaceBits}
    \cup {{17, 4}, {28, 30, 0}, NamespaceBits, {32}, {31, 40}, {25, 33}}

\* the first two arguments tried on clone and clone3: every sample value in
\* either position, next to no flag, CLONE_NEWUSER or SIGCHLD in the other
SampleArgs ==
    LET other == {{}, {28}, Bits(17)}
    IN  (SampleFlags \X other) \cup (other \X SampleFlags)

HasAdminToken == "CAP_SYS_ADMIN" \in Range(sp.Bounding)

Returned == pc = "done"

(* ------------------------------ C1 ------------------------------------- *)
\* C1: without CAP_SYS_ADMIN in the bounding list the returned policy has a
\* clone3 rule with action errno, errno value ENOSYS and no conditions, no
\* Allow rule names clone3, and every clone3 call resolves to ENOSYS.
C1_Clone3Unimplemented ==
    (Returned /\ ~HasAdminToken) =>
        /\ \E k \in RulesNaming(s, "clone3") :
              /\ s.Syscalls[k].Action = ActErrno
              /\ s.Syscalls[k].ErrnoRet = <<38>>
              /\ Len(s.Syscalls[k].Args) = 0
        /\ \A k \in RulesNaming(s, "clone3") : s.Syscalls[k].Action # ActAllow
        /\ LET named == RulesNaming(s, "clone3")
           IN  \A a \in SampleArgs :
                   VerdictsAmong(s, named, Call("clone3", a[1], a[2])) = Unimplemented

C1_Witness ==
    /\ Returned /\ ~HasAdminToken
    /\ Len(sp.Bounding) = MaxLen
    /\ "CAP_SYS_PTRACE" \in Range(sp.Bounding)
    /\ Verdicts(s, Call("clone3", NamespaceBits, {})) = Unimplemented

(* ------------------------------ C2 ------------------------------------- *)
\* the position of the flags among the arguments of clone, by architecture
CloneFlagsPosition == IF goarch \in {"s390", "s390x"} THEN 1 ELSE 0

\* C2: without CAP_SYS_ADMIN the only rule naming clone is one Allow rule
\* with one MaskedEqual condition (the namespace mask, compared with 0) on
\* index 1 for s390 and s390x and index 0 elsewhere; a clone call is allowed
\* iff its flags have no namespace bit, and otherwise gets the default deny.
C2_CloneMasked ==
    (Returned /\ ~HasAdminToken) =>
        /\ Cardinality(RulesNaming(s, "clone")) = 1
        /\ \A k \in RulesNaming(s, "clone") :
              /\ s.Syscalls[k].Action = ActAllow
              /\ Len(s.Syscalls[k].Args) = 1
              /\ s.Syscalls[k].Args[1].Op = OpMaskedEqual
              /\ s.Syscalls[k].Args[1].Value = NamespaceBits
              /\ s.Syscalls[k].Args[1].ValueTwo = {}
              /\ s.Syscalls[k].Args[1].Index = CloneFlagsPosition
        /\ LET named == RulesNaming(s, "clone")
           IN  \A a \in SampleArgs :
                   LET flags == a[CloneFlagsPosition + 1]
                   IN  VerdictsAmong(s, named, Call("clone", a[1], a[2])) =
                          IF flags \cap NamespaceBits = {} THEN Allowed ELSE DefaultDeny

C2_Witness ==
    /\ Returned /\ ~HasAdminToken
    /\ goarch = "s390x"
    /\ Verdicts(s, Call("clone", {28}, {})) = Allowed
    /\ Verdicts(s, Call("clone", {}, {28})) = DefaultDeny

(* ------------------------------ C3 ------------------------------------- *)
\* C3: with CAP_SYS_ADMIN anywhere in the bounding list the returned policy
\* has the Allow rule of the administration group without conditions, no
\* clone rule with a MaskedEqual condition and no clone3 rule with action
\* errno; clone and clone3 are allowed for all argument values.
C3_AdminUnrestricted ==
    (Returned /\ HasAdminToken) =>
        /\ \E k \in 1..Len(s.Syscalls) :
              /\ s.Syscalls[k].Names = CapNames("CAP_SYS_ADMIN")
              /\ {"clone", "clone3"} \subseteq s.Syscalls[k].Names
              /\ s.Syscalls[k].Action = ActAllow
              /\ Len(s.Syscalls[k].Args) = 0
        /\ \A k \in RulesNaming(s, "clone") :
              \A j \in 1..Len(s.Syscalls[k].Args) :
                  s.Syscalls[k].Args[j].Op # OpMaskedEqual
        /\ \A k \in RulesNaming(s, "clone3") : s.Syscalls[k].Action # ActErrno
        /\ LET clone == RulesNaming(s, "clone")
               clone3 == RulesNaming(s, "clone3")
           IN  \A a \in SampleArgs :
                   /\ VerdictsAmong(s, clone, Call("clone", a[1], a[2])) = Allowed
                   /\ VerdictsAmong(s, clone3, Call("clone3", a[1], a[2])) = Allowed

C3_Witness ==
    /\ Returned
    /\ Len(sp.Bounding) = 2
    /\ sp.Bounding[1] = "CAP_SYS_ADMIN"
    /\ sp.Bounding[2] # "CAP_SYS_ADMIN"
    /\ Verdicts(s, Call("clone", NamespaceBits, NamespaceBits)) = Allowed

(* ------------------------------ C4 ------------------------------------- *)
\* a rule that is the version-gated group
GatedGroupPresent(p) ==
    \E k \in 1..Len(p.Syscalls) :
        /\ p.Syscalls[k].Names = {"process_vm_readv", "process_vm_writev", "ptrace"}
        /\ p.Syscalls[k].Action = ActAllow
        /\ Len(p.Syscalls[k].Args) = 0

\* C4: the version-gated group is in the policy iff the oracle returned
\* (true, no error); an oracle error does not stop DefaultProfile (the only
\* stop is the unreadable process description) and the policy built after
\* an error has the default action and the baseline.
C4_KernelGate ==
    /\ pc \in {"arch", "range", "caps", "done", "panic"} =>
          (GatedGroupPresent(s) <=> (oracle.ok /\ ~oracle.err))
    /\ (oracle.err /\ Dereferenceable(sp)) => pc # "panic"
    /\ (oracle.err /\ Returned) =>
          /\ s.DefaultAction = ActErrno
          /\ Len(s.Syscalls) >= 7

C4_Witness ==
    /\ Returned
    /\ oracle.ok /\ oracle.err
    /\ "CAP_SYS_PTRACE" \in Range(sp.Bounding)
    /\ ~GatedGroupPresent(s)

(* ------------------------------ C5 ------------------------------------- *)
\* C5: DefaultProfile has no fatal path: for every architecture, oracle
\* outcome and process description (its bounding list empty, absent or with
\* unknown tokens) it never aborts, and the policy it returns has the
\* default action errno.
C5_NoFatalPath ==
    /\ pc # "panic"
    /\ Returned => s.DefaultAction = ActErrno

(* ------------------------------ C6 ------------------------------------- *)
\* the architecture table as the specification tabulates it
TabulatedArchIds ==
    [a \in GoArchs |->
       CASE a = "amd64" -> {"SCMP_ARCH_X86_64", "SCMP_ARCH_X86", "SCMP_ARCH_X32"}
         [] a = "arm64" -> {"SCMP_ARCH_ARM", "SCMP_ARCH_AARCH64"}
         [] a \in {"mips64", "mips64n32"} ->
              {"SCMP_ARCH_MIPS", "SCMP_ARCH_MIPS64", "SCMP_ARCH_MIPS64N32"}
         [] a \in {"mipsel64", "mipsel64n32"} ->
              {"SCMP_ARCH_MIPSEL", "SCMP_ARCH_MIPSEL64", "SCMP_ARCH_MIPSEL64N32"}
         [] a = "s390x" -> {"SCMP_ARCH_S390", "SCMP_ARCH_S390X"}
         [] a = "riscv64" -> {"SCMP_ARCH_RISCV64"}
         [] OTHER -> {}]

SupportedArchs ==
    {"amd64", "arm64", "mips64", "mips64n32", "mipsel64", "mipsel64n32",
     "s390x", "riscv64"}

\* C6: once the policy is built its architectures field is, for a supported
\* architecture, the non-empty tabulated set of ArchIds (each once), and
\* for every other architecture string the empty list; no stage fails on it.
C6_ArchTable ==
    pc # "compose" =>
        /\ Range(s.Architectures) = TabulatedArchIds[goarch]
        /\ Len(s.Architectures) = Cardinality(TabulatedArchIds[goarch])
        /\ goarch \in SupportedArchs => Len(s.Architectures) > 0
        /\ goarch \notin SupportedArchs => s.Architectures = <<>>

C6_Witness ==
    /\ Returned
    /\ goarch = "mipsel64n32"
    /\ Len(s.Architectures) = 3

C6_WitnessUnsupported ==
    /\ Returned
    /\ goarch = "arm"
    /\ s.Architectures = <<>>

(* ------------------------------ C7 ------------------------------------- *)
\* every syscall some capability's group names
TableSyscalls == UNION {CapNames(c) : c \in Capabilities}

\* the number of positions of the list holding a token of the table
Recognized(list) == Cardinality({k \in 1..Len(list) : list[k] \in Capabilities})

\* the architectures the "include by arch" switch has a group for
ArchsWithGroup ==
    {"ppc64le", "arm", "arm64", "amd64", "386", "s390", "s390x", "riscv64"}

\* C7: the returned policy has, for every capability of the table in the
\* bounding list, a condition-free Allow rule naming exactly its group; a
\* syscall of the table is named by a condition-free Allow rule only when a
\* capability in the list has it in its group, or it is one of
\* process_vm_readv, process_vm_writev, ptrace and the kernel gate added
\* them; tokens outside the table add no rule.
C7_CapabilityGroups ==
    Returned =>
        /\ \A c \in Capabilities \cap Range(sp.Bounding) :
              \E k \in 1..Len(s.Syscalls) :
                  /\ s.Syscalls[k].Names = CapNames(c)
                  /\ s.Syscalls[k].Action = ActAllow
                  /\ Len(s.Syscalls[k].Args) = 0
        /\ \A n \in TableSyscalls :
              ArgFreeAllowed(s, n) =>
                  \/ \E c \in Capabilities \cap Range(sp.Bounding) : n \in CapNames(c)
                  \/ /\ n \in {"process_vm_readv", "process_vm_writev", "ptrace"}
                     /\ oracle.ok /\ ~oracle.err
        /\ Len(s.Syscalls) =
              7 + (IF oracle.ok /\ ~oracle.err THEN 1 ELSE 0)
                + (IF goarch \in ArchsWithGroup THEN 1 ELSE 0)
                + Recognized(sp.Bounding)
                + (IF HasAdminToken THEN 0 ELSE 2)

C7_Witness ==
    /\ Returned
    /\ sp.Bounding = <<"CAP_SYS_MODULE", "CAP_NET_ADMIN">>
    /\ ArgFreeAllowed(s, "init_module")
    /\ ~ArgFreeAllowed(s, "mount")

(* ------------------------------ C8 ------------------------------------- *)
\* address families tried on socket: AF_UNSPEC, AF_UNIX, AF_INET, AF_INET6,
\* AF_NETLINK, AF_PACKET, AF_VSOCK, its neighbours, and 40 with bit 32 set
SampleFamilies ==
    {Bits(0), Bits(1), Bits(2), Bits(10), Bits(16), Bits(17), Bits(40),
     Bits(39), Bits(41), Bits(8), Bits(32), {3, 5, 32}}

\* C8: in the returned policy a socket call is denied by the default action
\* when argument 0 is AF_VSOCK (40) and allowed for every other family,
\* whatever the architecture, the oracle and the bounding list.
C8_SocketVsock ==
    Returned =>
        LET named == RulesNaming(s, "socket")
        IN  \A a0 \in SampleFamilies, a1 \in {{}, {0}, {3, 5}} :
                VerdictsAmong(s, named, Call("socket", a0, a1)) =
                    IF a0 = {3, 5} THEN DefaultDeny ELSE Allowed

C8_Witness ==
    /\ Returned
    /\ HasAdminToken
    /\ Verdicts(s, Call("socket", Bits(40), {0})) = DefaultDeny
    /\ Verdicts(s, Call("socket", Bits(2), {0})) = Allowed

(* ------------------------------ C9 ------------------------------------- *)
\* 0x0, 0x0008, 0x20000, 0x20008, 0xffffffff
PersonalityLiterals == {{}, {3}, {17}, {3, 17}, 0..31}

\* personality values tried: the five literals and values next to them
SamplePersonalities ==
    PersonalityLiterals
    \cup {{0}, {18}, {3, 18}, {17, 18}, 0..30, 0..32, {32}, {3, 32}, 1..31}

\* C9: in the returned policy a personality call is allowed iff argument 0
\* is one of the five literals; the rules naming personality are five Allow
\* rules, each with exactly one EqualTo condition on argument 0, one per
\* literal; every other value gets the default deny.
C9_PersonalityLiterals ==
    Returned =>
        /\ LET named == RulesNaming(s, "personality")
           IN  \A a0 \in SamplePersonalities, a1 \in {{}, {3}} :
                   VerdictsAmong(s, named, Call("personality", a0, a1)) =
                       IF a0 \in PersonalityLiterals THEN Allowed ELSE DefaultDeny
        /\ Cardinality(RulesNaming(s, "personality")) = 5
        /\ \A k \in RulesNaming(s, "personality") :
              /\ s.Syscalls[k].Action = ActAllow
              /\ Len(s.Syscalls[k].Args) = 1
              /\ s.Syscalls[k].Args[1].Op = OpEqualTo
              /\ s.Syscalls[k].Args[1].Index = 0
        /\ {s.Syscalls[k].Args[1].Value : k \in RulesNaming(s, "personality")}
              = PersonalityLiterals

C9_Witness ==
    /\ Returned
    /\ sp.Bounding = <<>>
    /\ Verdicts(s, Call("personality", 0..31, {})) = Allowed
    /\ Verdicts(s, Call("personality", {18}, {})) = DefaultDeny

(* ---------------- two invocations, one after the other ----------------- *)
(* DefaultProfile keeps no state between calls.  Here each call is one     *)
(* step, and a second call gets the same architecture and oracle answer    *)
(* and a bounding list with the same tokens as the first, rearranged or    *)
(* repeated; prev keeps the first call's list and policy.                  *)

\* the lists that hold exactly the tokens of list
SameTokenLists(list) == {l \in ListsOver(Range(list)) : Range(l) = Range(list)}

Invoke ==
    /\ pc = "compose"
    /\ IF Dereferenceable(sp)
       THEN /\ s' = DefaultProfile(goarch, oracle, sp)
            /\ admin' = Run(goarch, oracle, sp).Admin
            /\ idx' = Len(sp.Bounding) + 1
            /\ pc' = "done"
       ELSE /\ pc' = "panic"
            /\ UNCHANGED <<s, admin, idx>>
    /\ UNCHANGED <<goarch, oracle, sp, prev>>
    /\ UNCHANGED <<handlerVars, diffVars>>

InvokeAgain ==
    /\ pc = "done"
    /\ prev = NoPrev
    /\ \E l \in SameTokenLists(sp.Bounding) :
          /\ sp' = [sp EXCEPT !.Bounding = l]
          /\ s' = DefaultProfile(goarch, oracle, sp')
          /\ admin' = Run(goarch, oracle, sp').Admin
          /\ idx' = Len(l) + 1
    /\ prev' = [Bounding |-> sp.Bounding, Policy |-> s]
    /\ UNCHANGED <<goarch, oracle, pc>>
    /\ UNCHANGED <<handlerVars, diffVars>>

NextPair == Invoke \/ InvokeAgain

SpecPair == Init /\ [][NextPair]_vars

(* ------------------------------ C10 ------------------------------------ *)
\* the multiset of the elements of a sequence
BagOf(q) == [e \in Range(q) |-> Cardinality({k \in 1..Len(q) : q[k] = e})]

\* two calls were made, on lists with the same tokens
Compared == pc = "done" /\ prev # NoPrev /\ Range(sp.Bounding) = Range(prev.Bounding)

\* C10 (as claimed): two bounding lists with the same set of tokens, one a
\* permutation of the other or with tokens repeated, give policies with the
\* same multiset of rules.
C10_SameMultiset ==
    Compared => BagOf(s.Syscalls) = BagOf(prev.Policy.Syscalls)

\* C10 (amended): a permutation of the list gives the same multiset of
\* rules, and lists with the same set of tokens give the same set of rules,
\* the same architectures and default action; but every occurrence of a
\* token of the table appends its rule once more, so the number of rules
\* differs by the difference in the number of such occurrences.
C10_SameRuleSet ==
    Compared =>
        /\ BagOf(sp.Bounding) = BagOf(prev.Bounding) =>
              BagOf(s.Syscalls) = BagOf(prev.Policy.Syscalls)
        /\ Range(s.Syscalls) = Range(prev.Policy.Syscalls)
        /\ s.Architectures = prev.Policy.Architectures
        /\ s.DefaultAction = prev.Policy.DefaultAction
        /\ Len(s.Syscalls) - Len(prev.Policy.Syscalls) =
              Recognized(sp.Bounding) - Recognized(prev.Bounding)

C10_Witness ==
    /\ Compared
    /\ prev.Bounding = <<"CAP_SYS_BOOT">>
    /\ sp.Bounding = <<"CAP_SYS_BOOT", "CAP_SYS_BOOT">>
    /\ Len(s.Syscalls) = Len(prev.Policy.Syscalls) + 1
    /\ Range(s.Syscalls) = Range(prev.Policy.Syscalls)

(* ------------------------------ C12 ------------------------------------ *)
\* the rules each stage contributes, for the inputs of this call
BaselineSection == syscalls

KernelSection == IF oracle.ok /\ ~oracle.err THEN <<KernelGateRule>> ELSE <<>>

ArchSection == ArchGroup(NoPolicy, goarch).Syscalls

\* the rules of the first n tokens of the bounding list, in their order
CapSection(n) ==
    LET known == SelectSeq(SubSeq(sp.Bounding, 1, n), LAMBDA c : c \in Capabilities)
    IN  [k \in 1..Len(known) |-> AllowRule(CapNames(known[k]))]

HardenSection == IF HasAdminToken THEN <<>> ELSE <<CloneRule(goarch), Clone3Rule>>

\* C12 (as claimed): the returned rules are the baseline, then the
\* architecture-specific group, then the kernel-version-gated group, then
\* the capability rules in token order, then the clone and clone3 rules.
C12_ArchBeforeKernel ==
    Returned =>
        s.Syscalls = BaselineSection \o ArchSection \o KernelSection
                        \o CapSection(Len(sp.Bounding)) \o HardenSection

\* C12 (amended): at every point of the body the rules are exactly the
\* sections of the stages passed so far, in the order baseline,
\* kernel-version-gated group, architecture-specific group, capability
\* rules in token order, clone and clone3 rules; each stage only appends,
\* so no stage alters a rule of an earlier one.
C12_StageOrder ==
    /\ pc = "compose" => s.Syscalls = <<>>
    /\ pc = "kernel" => s.Syscalls = BaselineSection
    /\ pc = "arch" => s.Syscalls = BaselineSection \o KernelSection
    /\ pc \in {"range", "panic"} =>
          s.Syscalls = BaselineSection \o KernelSection \o ArchSection
    /\ pc = "caps" =>
          s.Syscalls = BaselineSection \o KernelSection \o ArchSection
                          \o CapSection(idx - 1)
    /\ pc = "done" =>
          s.Syscalls = BaselineSection \o KernelSection \o ArchSection
                          \o CapSection(Len(sp.Bounding)) \o HardenSection

C12_Witness ==
    /\ Returned
    /\ goarch = "amd64"
    /\ oracle.ok /\ ~oracle.err
    /\ sp.Bounding = <<"CAP_SYS_TIME", "CAP_SYS_BOOT">>
    /\ Len(s.Syscalls) = 13
    /\ s.Syscalls[8] = KernelGateRule
    /\ "arch_prctl" \in s.Syscalls[9].Names
    /\ s.Syscalls[10].Names = CapNames("CAP_SYS_TIME")
    /\ s.Syscalls[13] = Clone3Rule

(* ------------------------------ C14 ------------------------------------ *)
\* the syscalls of the groups the "include by arch" switch appends
ArchSpecificSyscalls ==
    {"sync_file_range2", "swapcontext", "arm_fadvise64_64", "arm_sync_file_range",
     "breakpoint", "cacheflush", "set_tls", "arch_prctl", "modify_ldt",
     "s390_pci_mmio_read", "s390_pci_mmio_write", "s390_runtime_instr",
     "riscv_flush_icache"}

\* the policy has a rule that is an architecture-specific group
HasArchGroup(p) ==
    \E k \in 1..Len(p.Syscalls) :
        /\ p.Syscalls[k].Names \subseteq ArchSpecificSyscalls
        /\ p.Syscalls[k].Action = ActAllow

\* C14: a returned policy that contains an architecture-specific syscall
\* group has a non-empty architectures list.
C14_ArchGroupHasArch ==
    (Returned /\ HasArchGroup(s)) => Len(s.Architectures) > 0

(* =============== remotes: SkipNonDistributableBlobs ==================== *)
(* The handler wraps another handler f and drops the non-distributable     *)
(* descriptors from what f returns.  Its body is modelled from the         *)
(* behaviour TestSkipNonDistributableBlobs asserts.                        *)

\* most children a generated answer of the wrapped handler has
MaxChildren == 3

MediaTypeDockerSchema2Layer == "application/vnd.docker.image.rootfs.diff.tar"

MediaTypeDockerSchema2LayerForeign == "application/vnd.docker.image.rootfs.foreign.diff.tar"

MediaTypeDockerSchema2LayerForeignGzip == "application/vnd.docker.image.rootfs.foreign.diff.tar.gzip"

MediaTypeImageLayerNonDistributable == "application/vnd.oci.image.layer.nondistributable.v1.tar"

MediaTypeImageLayerNonDistributableGzip == "application/vnd.oci.image.layer.nondistributable.v1.tar+gzip"

MediaTypeImageLayerNonDistributableZstd == "application/vnd.oci.image.layer.nondistributable.v1.tar+zstd"

MediaTypeImageConfig == "application/vnd.oci.image.config.v1+json"

MediaTypeDockerSchema2Manifest == "application/vnd.docker.distribution.manifest.v2+json"

MediaTypeImageManifest == "application/vnd.oci.image.manifest.v1+json"

Descriptor(mediaType, digest) == [MediaType |-> mediaType, Digest |-> digest]

\* the six layers the test's handler and the test's manifest list
TestLayers ==
    <<Descriptor(MediaTypeDockerSchema2Layer, "test:1"),
      Descriptor(MediaTypeDockerSchema2LayerForeign, "test:2"),
      Descriptor(MediaTypeDockerSchema2LayerForeignGzip, "test:3"),
      Descriptor(MediaTypeImageLayerNonDistributable, "test:4"),
      Descriptor(MediaTypeImageLayerNonDistributableGzip, "test:5"),
      Descriptor(MediaTypeImageLayerNonDistributableZstd, "test:6")>>

\* what images.ChildrenHandler returns for the test's manifest: the config,
\* then the layers
TestManifestChildren == <<Descriptor(MediaTypeImageConfig, "config")>> \o TestLayers

\* IsNonDistributable without the zstd variant
IsNonDistributable_NoZstd(mediaType) ==
    mediaType \in {MediaTypeDockerSchema2LayerForeign,
                   MediaTypeDockerSchema2LayerForeignGzip,
                   MediaTypeImageLayerNonDistributable,
                   MediaTypeImageLayerNonDistributableGzip}

\* the media types of non-distributable layers
IsNonDistributable(mediaType) ==
    mediaType \in {MediaTypeDockerSchema2LayerForeign,
                   MediaTypeDockerSchema2LayerForeignGzip,
                   MediaTypeImageLayerNonDistributable,
                   MediaTypeImageLayerNonDistributableGzip,
                   MediaTypeImageLayerNonDistributableZstd}

\* the children the returned handler passes on
SkipNonDistributableBlobs(list) ==
    SelectSeq(list, LAMBDA d : ~IsNonDistributable(d.MediaType))

\* media types of generated children
ChildTypes ==
    {MediaTypeDockerSchema2Layer, MediaTypeDockerSchema2LayerForeign,
     MediaTypeDockerSchema2LayerForeignGzip, MediaTypeImageLayerNonDistributable,
     MediaTypeImageLayerNonDistributableGzip, MediaTypeImageLayerNonDistributableZstd,
     MediaTypeImageConfig}

\* the digest of the k-th generated child
DigestAt(k) == <<"test:1", "test:2", "test:3", "test:4", "test:5", "test:6">>[k]

\* answers of the wrapped handler: every list of up to MaxChildren children
\* with distinct digests, and the two lists of the test
ChildLists ==
    UNION {{[k \in 1..n |-> Descriptor(m[k], DigestAt(k))] : m \in [1..n -> ChildTypes]} :
              n \in 0..MaxChildren}

InitHandlers ==
    /\ desc \in {Descriptor(MediaTypeDockerSchema2Manifest, "manifest"),
                 Descriptor(MediaTypeImageManifest, "manifest")}
    /\ children \in ChildLists \cup {TestLayers, TestManifestChildren}
    /\ ferr \in BOOLEAN
    /\ out = <<>>
    /\ outErr = FALSE
    /\ hpc = "call"
    /\ SeccompIdle
    /\ DiffIdle

\* children, err := f(ctx, desc); an error of f is returned as it is
CallWrapped ==
    /\ hpc = "call"
    /\ IF ferr
       THEN outErr' = TRUE /\ hpc' = "returned"
       ELSE outErr' = FALSE /\ hpc' = "filter"
    /\ UNCHANGED <<desc, children, ferr, out>>
    /\ UNCHANGED <<seccompVars, diffVars>>

\* the children that are not non-distributable are returned
FilterChildren ==
    /\ hpc = "filter"
    /\ out' = SkipNonDistributableBlobs(children)
    /\ hpc' = "returned"
    /\ UNCHANGED <<desc, children, ferr, outErr>>
    /\ UNCHANGED <<seccompVars, diffVars>>

NextHandlers == CallWrapped \/ FilterChildren

SpecHandlers == InitHandlers /\ [][NextHandlers]_vars

(* ------------------------------ C11 ------------------------------------ *)
\* the foreign layer media types
ForeignLayerTypes ==
    {"application/vnd.docker.image.rootfs.foreign.diff.tar",
     "application/vnd.docker.image.rootfs.foreign.diff.tar.gzip",
     "application/vnd.oci.image.layer.nondistributable.v1.tar",
     "application/vnd.oci.image.layer.nondistributable.v1.tar+gzip",
     "application/vnd.oci.image.layer.nondistributable.v1.tar+zstd"}

\* the position in children of a descriptor (digests are distinct)
ChildPosition(d) == CHOOSE k \in 1..Len(children) : children[k] = d

\* C11: when the wrapped handler succeeds, the returned handler returns no
\* error and exactly the wrapped handler's children whose media type is not
\* a foreign layer type, each once, in their original relative order.
C11_SkipsForeignLayers ==
    (hpc = "returned" /\ ~ferr) =>
        LET kept == {k \in 1..Len(children) :
                        children[k].MediaType \notin ForeignLayerTypes}
        IN  /\ outErr = FALSE
            /\ Range(out) = {children[k] : k \in kept}
            /\ Len(out) = Cardinality(kept)
            /\ \A i \in 1..Len(out), j \in 1..Len(out) :
                  i < j => ChildPosition(out[i]) < ChildPosition(out[j])

C11_Witness ==
    /\ hpc = "returned" /\ ~ferr
    /\ children = TestManifestChildren
    /\ Len(out) = 2
    /\ out[1].Digest = "config"
    /\ out[2].Digest = "test:1"

(* ========================= rootfs: CreateDiff ========================== *)
(* CreateDiff calls the snapshotter and the comparer in a fixed order and  *)
(* defers the removal of each view it created; the deferred removals run   *)
(* last in, first out when the function returns.  Every call of the        *)
(* snapshotter and of the comparer may fail.                               *)

KindActive == "KindActive"

SnapshotKinds == {"KindView", KindActive, "KindCommitted"}

NoKey == [Base |-> "", Tag |-> "", Unique |-> 0]

\* fmt.Sprintf("%s-parent-view-%s", info.Parent, uniquePart())
LowerKey(parent, unique) == [Base |-> parent, Tag |-> "parent-view", Unique |-> unique]

\* fmt.Sprintf("%s-view-%s", snapshotID, uniquePart())
UpperKey(id, unique) == [Base |-> id, Tag |-> "view", Unique |-> unique]

\* a call made by CreateDiff, the key it names and whether it succeeded
Event(op, key, ok) == [Op |-> op, Key |-> key, Ok |-> ok]

\* cleanup.Do(ctx, fn) runs fn once: the keys Remove is called with
CleanupDo(key) == <<key>>

InitDiff ==
    /\ snapshotID \in {"sn1", "sn2"}
    /\ info \in [Kind : SnapshotKinds, Parent : {"", "base"}]
    /\ dpc = "stat"
    /\ calls = <<>>
    /\ deferred = <<>>
    /\ views = {}
    /\ uniq = 0
    /\ ret = "none"
    /\ SeccompIdle
    /\ HandlerIdle

\* info, err := sn.Stat(ctx, snapshotID)
StatSnapshot ==
    /\ dpc = "stat"
    /\ \E ok \in BOOLEAN :
          /\ calls' = Append(calls, Event("Stat", NoKey, ok))
          /\ IF ok
             THEN dpc' = "viewLower" /\ ret' = ret
             ELSE dpc' = "returned" /\ ret' = "err"
    /\ UNCHANGED <<snapshotID, info, deferred, views, uniq>>
    /\ UNCHANGED <<seccompVars, handlerVars>>

\* lower, err := sn.View(ctx, lowerKey, info.Parent); defer Remove(lowerKey)
ViewLower ==
    /\ dpc = "viewLower"
    /\ uniq' = uniq + 1
    /\ LET lowerKey == LowerKey(info.Parent, uniq + 1)
       IN  \E ok \in BOOLEAN :
              /\ calls' = Append(calls, Event("View", lowerKey, ok))
              /\ IF ok
                 THEN /\ views' = views \cup {lowerKey}
                      /\ deferred' = Append(deferred, lowerKey)
                      /\ dpc' = IF info.Kind = KindActive THEN "mounts" ELSE "viewUpper"
                      /\ ret' = ret
                 ELSE /\ dpc' = "unwind"
                      /\ ret' = "err"
                      /\ UNCHANGED <<views, deferred>>
    /\ UNCHANGED <<snapshotID, info>>
    /\ UNCHANGED <<seccompVars, handlerVars>>

\* upper, err = sn.Mounts(ctx, snapshotID)
MountsActive ==
    /\ dpc = "mounts"
    /\ \E ok \in BOOLEAN :
          /\ calls' = Append(calls, Event("Mounts", NoKey, ok))
          /\ IF ok
             THEN dpc' = "compare" /\ ret' = ret
             ELSE dpc' = "unwind" /\ ret' = "err"
    /\ UNCHANGED <<snapshotID, info, deferred, views, uniq>>
    /\ UNCHANGED <<seccompVars, handlerVars>>

\* ViewUpper that does not defer the removal
ViewUpper_NoDefer ==
    /\ dpc = "viewUpper"
    /\ uniq' = uniq + 1
    /\ LET upperKey == UpperKey(snapshotID, uniq + 1)
       IN  \E ok \in BOOLEAN :
              /\ calls' = Append(calls, Event("View", upperKey, ok))
              /\ IF ok
                 THEN /\ views' = views \cup {upperKey}
                      /\ deferred' = deferred
                      /\ dpc' = "compare"
                      /\ ret' = ret
                 ELSE /\ dpc' = "unwind"
                      /\ ret' = "err"
                      /\ UNCHANGED <<views, deferred>>
    /\ UNCHANGED <<snapshotID, info>>
    /\ UNCHANGED <<seccompVars, handlerVars>>

\* upper, err = sn.View(ctx, upperKey, snapshotID); defer Remove(upperKey)
ViewUpper ==
    /\ dpc = "viewUpper"
    /\ uniq' = uniq + 1
    /\ LET upperKey == UpperKey(snapshotID, uniq + 1)
       IN  \E ok \in BOOLEAN :
              /\ calls' = Append(calls, Event("View", upperKey, ok))
              /\ IF ok
                 THEN /\ views' = views \cup {upperKey}
                      /\ deferred' = Append(deferred, upperKey)
                      /\ dpc' = "compare"
                      /\ ret' = ret
                 ELSE /\ dpc' = "unwind"
                      /\ ret' = "err"
                      /\ UNCHANGED <<views, deferred>>
    /\ UNCHANGED <<snapshotID, info>>
    /\ UNCHANGED <<seccompVars, handlerVars>>

\* d.Compare(ctx, lower, upper, opts...) is entered
CompareCall ==
    /\ dpc = "compare"
    /\ calls' = Append(calls, Event("Compare", NoKey, TRUE))
    /\ dpc' = "comparing"
    /\ UNCHANGED <<snapshotID, info, deferred, views, uniq, ret>>
    /\ UNCHANGED <<seccompVars, handlerVars>>

\* Compare returns and its result is the result of CreateDiff
CompareReturn ==
    /\ dpc = "comparing"
    /\ \E ok \in BOOLEAN :
          /\ calls' = Append(calls, Event("CompareReturn", NoKey, ok))
          /\ ret' = IF ok THEN "ok" ELSE "err"
    /\ dpc' = "unwind"
    /\ UNCHANGED <<snapshotID, info, deferred, views, uniq>>
    /\ UNCHANGED <<seccompVars, handlerVars>>

\* the deferred function registered last runs: sn.Remove(ctx, key), whose
\* error is dropped
RunDeferred ==
    /\ dpc = "unwind"
    /\ deferred # <<>>
    /\ LET key == deferred[Len(deferred)]
           removals == CleanupDo(key)
       IN  \E ok \in BOOLEAN :
              /\ calls' = calls \o [k \in 1..Len(removals) |-> Event("Remove", removals[k], ok)]
              /\ views' = IF ok THEN views \ Range(removals) ELSE views
    /\ deferred' = SubSeq(deferred, 1, Len(deferred) - 1)
    /\ UNCHANGED <<snapshotID, info, dpc, uniq, ret>>
    /\ UNCHANGED <<seccompVars, handlerVars>>

\* no deferred function is left: CreateDiff has returned
ReturnDiff ==
    /\ dpc = "unwind"
    /\ deferred = <<>>
    /\ dpc' = "returned"
    /\ UNCHANGED <<snapshotID, info, calls, deferred, views, uniq, ret>>
    /\ UNCHANGED <<seccompVars, handlerVars>>

NextDiff ==
    \/ StatSnapshot
    \/ ViewLower
    \/ MountsActive
    \/ ViewUpper
    \/ CompareCall
    \/ CompareReturn
    \/ RunDeferred
    \/ ReturnDiff

SpecDiff == InitDiff /\ [][NextDiff]_vars

(* ------------------------------ C13 ------------------------------------ *)
\* the positions of the calls of an operation
CallsOf(op) == {k \in 1..Len(calls) : calls[k].Op = op}

\* the keys of the views CreateDiff created
CreatedViews == {calls[k].Key : k \in {j \in CallsOf("View") : calls[j].Ok}}

\* the positions at which Remove is called with the key
RemovalsOf(key) == {k \in CallsOf("Remove") : calls[k].Key = key}

StatFailed == \E k \in CallsOf("Stat") : ~calls[k].Ok

ParentViewFailed ==
    \E k \in CallsOf("View") : calls[k].Key.Tag = "parent-view" /\ ~calls[k].Ok

UpperViewFailed ==
    \E k \in CallsOf("View") : calls[k].Key.Tag = "view" /\ ~calls[k].Ok

MountsFailed == \E k \in CallsOf("Mounts") : ~calls[k].Ok

DiffReturned == dpc = "returned"

\* what the claim and its amendment share: every created view is removed
\* exactly once, nothing else is removed, the upper view exists only for a
\* snapshot that is not active, and after a failed Stat or parent View
\* nothing is removed and Compare is not called
RemovedExactlyOnce ==
    /\ \A key \in CreatedViews : Cardinality(RemovalsOf(key)) = 1
    /\ \A k \in CallsOf("Remove") : calls[k].Key \in CreatedViews
    /\ info.Kind = KindActive => \A key \in CreatedViews : key.Tag = "parent-view"
    /\ (StatFailed \/ ParentViewFailed) =>
          CallsOf("Remove") = {} /\ CallsOf("Compare") = {}

\* C13 (as claimed): on every return path each created view has Remove
\* called on its key exactly once and only after Compare has returned; if
\* Stat or the parent View fails nothing is removed and Compare is not called.
C13_RemoveAfterCompareReturned ==
    DiffReturned =>
        /\ RemovedExactlyOnce
        /\ \A k \in CallsOf("Remove") :
              \E j \in CallsOf("CompareReturn") : j < k

\* C13 (amended): on every return path each created view has Remove called
\* on its key exactly once, as the last calls CreateDiff makes: after
\* Compare has returned when Compare was called, and without any call of
\* Compare when Mounts or the upper View failed; if Stat or the parent View
\* fails nothing is removed and Compare is not called.  No view is removed
\* before CreateDiff has finished its other calls, and if every Remove
\* succeeds no created view is left.
C13_RemoveOnReturn ==
    /\ DiffReturned =>
          /\ RemovedExactlyOnce
          /\ (MountsFailed \/ UpperViewFailed) => CallsOf("Compare") = {}
          /\ CallsOf("Compare") # {} => CallsOf("CompareReturn") # {}
          /\ (\A k \in CallsOf("Remove") : calls[k].Ok) => views = {}
    /\ \A k \in CallsOf("Remove") :
          \A j \in 1..Len(calls) : calls[j].Op # "Remove" => j < k
    /\ dpc \in {"compare", "comparing"} => CallsOf("Remove") = {}

C13_Witness ==
    /\ DiffReturned
    /\ info.Kind = "KindCommitted"
    /\ ret = "err"
    /\ Cardinality(CreatedViews) = 2
    /\ CallsOf("CompareReturn") # {}
    /\ Len(calls) = 7
    /\ calls[6].Key.Tag = "view"
    /\ calls[7].Key.Tag = "parent-view"

====
